---------------------------- MODULE Spec2Model ----------------------------
(***************************************************************************)
(* A model of scrapperIptv.py: the two site extractors (RojadirectaScraper *)
(* and DaddyLiveScraper), the loading contract of BaseScraper, and the     *)
(* ScraperManager (registry, scrape operations, playlist exporter).        *)
(*                                                                         *)
(* Python values are represented as follows.                               *)
(*   str            a TLA+ string; indices are Python's (0-based)          *)
(*   None | x       the option <<>> | <<x>>                                *)
(*   list           a sequence                                             *)
(*   dict           a sequence of [k, v] records in insertion order        *)
(*   markup         the tree html.parser builds from the text              *)
(***************************************************************************)
EXTENDS Integers, Sequences, FiniteSets, TLC

VARIABLES
    scraper_map,  \* ScraperManager.scraper_map: pattern -> scraper class
    results,      \* ScraperManager.results: source identifier -> events
    all_rows,     \* the rows the last export_to_m3u built
    m3u,          \* the playlist file: None until written, else its lines
    scraper,      \* a scraper instance [cls, url, html_content, soup], or None
    page,         \* the markup the sources (URLs, files, strings) hold
    op,           \* the last call
    arg,          \* its inputs
    ret,          \* its return value
    calls         \* the number of calls made on the manager

vars == <<scraper_map, results, all_rows, m3u, scraper, page, op, arg, ret, calls>>

None == <<>>
Some(x) == <<x>>

(***************************************************************************)
(* Let_n(F, a, ..) is F(a, ..) with each argument evaluated once, before   *)
(* F is applied, as Python evaluates the arguments of a call.              *)
(***************************************************************************)
Let1(F(_), a) == CHOOSE r \in {F(x) : x \in {a}} : TRUE
Let2(F(_, _), a, b) == CHOOSE r \in {F(x[1], x[2]) : x \in {<<a, b>>}} : TRUE
Let3(F(_, _, _), a, b, c) ==
    CHOOSE r \in {F(x[1], x[2], x[3]) : x \in {<<a, b, c>>}} : TRUE
Let4(F(_, _, _, _), a, b, c, d) ==
    CHOOSE r \in {F(x[1], x[2], x[3], x[4]) : x \in {<<a, b, c, d>>}} : TRUE
Let5(F(_, _, _, _, _), a, b, c, d, e) ==
    CHOOSE r \in {F(x[1], x[2], x[3], x[4], x[5]) : x \in {<<a, b, c, d, e>>}} : TRUE

(***************************************************************************)
(* Python str operations used by the source.                               *)
(***************************************************************************)
Min(a, b) == IF a <= b THEN a ELSE b
Max(a, b) == IF a >= b THEN a ELSE b
Least(S) == Let1(LAMBDA T : CHOOSE i \in T : \A j \in T : i <= j, S)
Greatest(S) == Let1(LAMBDA T : CHOOSE i \in T : \A j \in T : i >= j, S)

\* s[i] for 0 <= i < len(s)
CharAt(s, i) == SubSeq(s, i + 1, i + 1)

\* s[a:b] with Python's handling of negative and out-of-range bounds
Slice(str, from, to) ==
    Let3(LAMBDA s, a, b :
           LET n  == Len(s)
               lo == IF a < 0 THEN Max(a + n, 0) ELSE Min(a, n)
               hi == IF b < 0 THEN Max(b + n, 0) ELSE Min(b, n)
           IN  IF lo >= hi THEN "" ELSE SubSeq(s, lo + 1, hi),
         str, from, to)

\* s.startswith(p, i)
StartsAt(str, prefix, at) ==
    Let3(LAMBDA s, p, i :
           /\ i >= 0
           /\ i + Len(p) <= Len(s)
           /\ SubSeq(s, i + 1, i + Len(p)) = p,
         str, prefix, at)

\* p in s
Contains(str, sub) ==
    Let2(LAMBDA s, p : \E i \in 0..Len(s) : StartsAt(s, p, i), str, sub)

\* s.find(p, from): the least index >= from where p occurs, or -1
FindFrom(str, sub, start) ==
    Let3(LAMBDA s, p, from :
           Let1(LAMBDA hits : IF hits = {} THEN -1 ELSE Least(hits),
                {i \in from..Len(s) : StartsAt(s, p, i)}),
         str, sub, start)

\* s.index(p); the source calls it only where p occurs in s
Index(s, p) == FindFrom(s, p, 0)

IsSpace(c) == c \in {" ", "\n", "\t", "\r"}
IsDigit(c) == c \in {"0", "1", "2", "3", "4", "5", "6", "7", "8", "9"}

\* s.strip()
Strip(str) ==
    Let1(LAMBDA s :
           Let1(LAMBDA keep :
                  IF keep = {} THEN "" ELSE Slice(s, Least(keep), Greatest(keep) + 1),
                {i \in 0..(Len(s) - 1) : ~IsSpace(CharAt(s, i))}),
         str)

\* s.replace(old, ""): every non-overlapping occurrence, left to right
RECURSIVE Remove(_, _)
Remove(str, sub) ==
    Let2(LAMBDA s, old :
           IF old = "" THEN s
           ELSE Let1(LAMBDA i :
                       IF i = -1 THEN s
                       ELSE Slice(s, 0, i)
                            \o Remove(Slice(s, i + Len(old), Len(s)), old),
                     FindFrom(s, old, 0)),
         str, sub)

\* the length of the run of digits of s that starts at index i
RECURSIVE DigitRun(_, _)
DigitRun(str, at) ==
    Let2(LAMBDA s, i :
           IF i < Len(s) /\ IsDigit(CharAt(s, i)) THEN 1 + DigitRun(s, i + 1) ELSE 0,
         str, at)

\* "".join(ss)
RECURSIVE Concat(_)
Concat(strs) ==
    Let1(LAMBDA ss : IF ss = <<>> THEN "" ELSE Head(ss) \o Concat(Tail(ss)), strs)

\* the concatenation of the lists of a list
RECURSIVE Flatten(_)
Flatten(lists) ==
    Let1(LAMBDA ss : IF ss = <<>> THEN <<>> ELSE Head(ss) \o Flatten(Tail(ss)), lists)

InSeq(x, s) == \E i \in 1..Len(s) : s[i] = x

(***************************************************************************)
(* Parsed markup.  A document is [menu, strongs]:                          *)
(*   menu     what select("ul.menu > li") returns: the items, each         *)
(*            [class, link, sub] with class the list of class tokens,      *)
(*            link the item's own anchor (None when it has none) and sub   *)
(*            the nested ul (None when it has none), a list of             *)
(*            [class, link] li elements;                                   *)
(*   strongs  what find_all('strong') returns: each block is the list of   *)
(*            its text and anchor descendants in document order.           *)
(* An anchor is [href, kids]; a kid is a text node or a span element,      *)
(* [tag, class, text].  Texts hold none of the characters & < > , which    *)
(* the serialisation of a tag would escape.                                *)
(***************************************************************************)
TextNode(t) == [tag |-> "text", class |-> <<>>, text |-> t, href |-> None]
SpanNode(c, t) == [tag |-> "span", class |-> c, text |-> t, href |-> None]
LinkNode(t, h) == [tag |-> "a", class |-> <<>>, text |-> t, href |-> h]
Anchor(h, ks) == [href |-> h, kids |-> ks]

\* tag.get_text(): the texts of the descendants, concatenated
GetText(tag) ==
    Let1(LAMBDA nodes : Concat([i \in 1..Len(nodes) |-> nodes[i].text]), tag)

\* str(tag) of a text node or span element
SerializeKid(kid) ==
    Let1(LAMBDA k :
           IF k.tag = "text" THEN k.text
           ELSE "<span"
                \o (IF k.class = <<>> THEN ""
                    ELSE " class=\"" \o Head(k.class)
                         \o Concat([i \in 1..(Len(k.class) - 1) |-> " " \o k.class[i + 1]])
                         \o "\"")
                \o ">" \o k.text \o "</span>",
         kid)

\* str(event_link): the anchor's markup
Serialize(anchor) ==
    Let1(LAMBDA a :
           "<a" \o (IF a.href = None THEN "" ELSE " href=\"" \o a.href[1] \o "\"") \o ">"
           \o Concat([i \in 1..Len(a.kids) |-> SerializeKid(a.kids[i])])
           \o "</a>",
         anchor)

(***************************************************************************)
(* RojadirectaScraper.scrape                                               *)
(***************************************************************************)
NoEspecificado == "No especificado"
SpanOpen == "<span class=\"t\">"
SpanClose == "</span>"
PlaceholderAnchor == "<a href=\"#\">"

\* [d1, d2, ok]: <span class="t">(\d+:\d+)</span> matches s at index e, with
\* digit runs of lengths d1 and d2
TimeSpanAt(str, at) ==
    Let2(LAMBDA s, p :
           Let1(LAMBDA d1 :
                  Let1(LAMBDA d2 :
                         [d1 |-> d1, d2 |-> d2,
                          ok |-> /\ StartsAt(s, SpanOpen, p - Len(SpanOpen))
                                 /\ d1 >= 1
                                 /\ StartsAt(s, ":", p + d1)
                                 /\ d2 >= 1
                                 /\ StartsAt(s, SpanClose, p + d1 + 1 + d2)],
                       DigitRun(s, p + d1 + 1)),
                DigitRun(s, p)),
         str, at + Len(SpanOpen))

\* re.search(r'(.+?)(?:<span class="t">(\d+:\d+)</span>)', s): the leftmost
\* start, then the shortest group 1; "." matches anything but a newline.
\* None, or [g1, g2].
TimeMatch(str) ==
    Let1(LAMBDA s :
      Let2(LAMBDA E, NL :
        Let1(LAMBDA S :
               IF S = {} THEN None
               ELSE Let1(LAMBDA st :
                      Let1(LAMBDA e :
                             Let2(LAMBDA p, m :
                                    Some([g1 |-> Slice(s, st, e),
                                          g2 |-> Slice(s, p, p + m.d1 + 1 + m.d2)]),
                                  e + Len(SpanOpen), TimeSpanAt(s, e)),
                           Least({e \in E : /\ st < e
                                            /\ \A j \in NL : j < st \/ j >= e})),
                      Least(S)),
             {st \in 0..Len(s) :
                \E e \in E : st < e /\ \A j \in NL : j < st \/ j >= e}),
        {e \in 0..Len(s) : TimeSpanAt(s, e).ok},
        {j \in 0..(Len(s) - 1) : CharAt(s, j) = "\n"}),
      str)

\* item.find('a'): the first anchor below the item, in document order
FirstAnchor(li) ==
    Let1(LAMBDA item :
           IF item.link # None THEN item.link
           ELSE IF item.sub = None THEN None
           ELSE Let1(LAMBDA lis : IF lis = <<>> THEN None ELSE lis[1].link,
                     SelectSeq(item.sub[1], LAMBDA x : x.link # None)),
         li)

\* event_link.find('span', class_='t')
FindTimeSpan(anchor) ==
    Let1(LAMBDA spans : IF spans = <<>> THEN None ELSE Some(spans[1]),
         SelectSeq(anchor.kids, LAMBDA k : k.tag = "span" /\ InSeq("t", k.class)))

\* lines 97-112: the event's title and time from its anchor
TitleAndTime(anchor) ==
    Let1(LAMBDA event_link :
      Let3(LAMBDA event_title, time_match, time_span :
             Let1(LAMBDA split :
                    [title |-> Remove(split.title, PlaceholderAnchor),
                     time  |-> split.time],
                  IF time_match # None
                  THEN [title |-> Strip(time_match[1].g1), time |-> time_match[1].g2]
                  ELSE Let1(LAMBDA event_time :
                              [title |-> Strip(Remove(event_title, event_time)),
                               time  |-> event_time],
                            IF time_span # None THEN time_span[1].text
                            ELSE NoEspecificado)),
           Strip(GetText(event_link.kids)),
           TimeMatch(Serialize(event_link)),
           FindTimeSpan(event_link)),
      anchor)

\* lines 115-127: the channels of the item's nested list
ItemChannels(li) ==
    Let1(LAMBDA item :
           IF item.sub = None THEN <<>>
           ELSE Let1(LAMBDA lis :
                       [i \in 1..Len(lis) |->
                          [name |-> Strip(GetText(lis[i].link[1].kids)),
                           url  |-> IF lis[i].link[1].href = None THEN Some("")
                                    ELSE lis[i].link[1].href]],
                     SelectSeq(item.sub[1],
                               LAMBDA x : InSeq("subitem1", x.class) /\ x.link # None)),
         li)

\* lines 88-137: the body of the loop for one item that has an anchor
RojaEvent(li) ==
    Let1(LAMBDA item :
           Let1(LAMBDA tt :
                  [country_league |-> IF item.class = <<>> THEN "" ELSE item.class[1],
                   title    |-> tt.title,
                   time     |-> tt.time,
                   channels |-> ItemChannels(item)],
                TitleAndTime(FirstAnchor(item)[1])),
         li)

RojadirectaScrape(doc) ==
    Let1(LAMBDA soup :
           IF soup = None THEN <<>>
           ELSE Let1(LAMBDA menu_items :
                       [i \in 1..Len(menu_items) |-> RojaEvent(menu_items[i])],
                     SelectSeq(soup[1].menu, LAMBDA item : FirstAnchor(item) # None)),
         doc)

(***************************************************************************)
(* DaddyLiveScraper.scrape                                                 *)
(***************************************************************************)
\* \d{2}:\d{2} matches s at index i
TimePatternAt(s, i) ==
    /\ i + 5 <= Len(s)
    /\ IsDigit(CharAt(s, i)) /\ IsDigit(CharAt(s, i + 1))
    /\ CharAt(s, i + 2) = ":"
    /\ IsDigit(CharAt(s, i + 3)) /\ IsDigit(CharAt(s, i + 4))

\* time_pattern.search(s): the index of the leftmost match, or -1
TimePatternSearch(str) ==
    Let1(LAMBDA s :
           Let1(LAMBDA hits : IF hits = {} THEN -1 ELSE Least(hits),
                {i \in 0..Len(s) : TimePatternAt(s, i)}),
         str)

\* strong.find_all('a')
FindAllA(strong) == SelectSeq(strong, LAMBDA n : n.tag = "a")

\* line 199: the accumulator after an event is emitted
ChannelsKept(channels) == channels
ChannelsReset(channels) == <<>>

\* lines 169-199: the event of a block whose text matches at index match, and
\* the accumulator afterwards
DaddyEvent(block, text, at, acc) ==
    Let4(LAMBDA strong, texto_completo, match, channels :
      Let2(LAMBDA hora, links :
        Let2(LAMBDA titulo_inicio, canales :
          Let2(LAMBDA titulo_fin, channels2 :
                 [event_info |->
                    [country_league |-> "",
                     title    |-> Strip(Slice(texto_completo, titulo_inicio, titulo_fin)),
                     time     |-> hora,
                     channels |-> channels2],
                  channels |-> ChannelsReset(channels2)],
               IF canales # <<>> THEN Index(texto_completo, canales[1]) - 1
               ELSE Len(texto_completo),
               channels \o [k \in 1..Len(links) |->
                              [name |-> links[k].text, url |-> links[k].href]]),
          Index(texto_completo, hora) + Len(hora),
          [k \in 1..Len(links) |-> links[k].text]),
        Slice(texto_completo, match, match + 5),
        FindAllA(strong)),
      block, text, at, acc)

\* lines 160-199: the loop from block i on
RECURSIVE DaddyLoop(_, _, _, _)
DaddyLoop(blocks, from, evs, acc) ==
    Let4(LAMBDA strongs, i, events, channels :
           IF i > Len(strongs) THEN events
           ELSE Let1(LAMBDA texto_completo :
                  Let1(LAMBDA match :
                         IF match = -1 THEN DaddyLoop(strongs, i + 1, events, channels)
                         ELSE Let1(LAMBDA e :
                                     DaddyLoop(strongs, i + 1,
                                               Append(events, e.event_info), e.channels),
                                   DaddyEvent(strongs[i], texto_completo, match, channels)),
                       TimePatternSearch(texto_completo)),
                  GetText(strongs[i])),
         blocks, from, evs, acc)

DaddyLiveScrape(doc) ==
    Let1(LAMBDA soup :
           IF soup = None THEN <<>> ELSE DaddyLoop(soup[1].strongs, 1, <<>>, <<>>),
         doc)

(***************************************************************************)
(* BaseScraper                                                             *)
(***************************************************************************)
RojadirectaScraper == "RojadirectaScraper"
DaddyLiveScraper == "DaddyLiveScraper"
Classes == {RojadirectaScraper, DaddyLiveScraper}

NewScraper(cls, url) ==
    [cls |-> cls, url |-> url, html_content |-> None, soup |-> None]

\* What requests.get(url) or open(filepath) does: it raises, or yields a text
\* (requests.get with a status).
Exception == [kind |-> "exception", status |-> 0, text |-> None]
Response(status, text) == [kind |-> "response", status |-> status, text |-> Some(text)]
File(text) == [kind |-> "file", status |-> 0, text |-> Some(text)]

\* Each load gives [ok, s]: the value returned and the instance afterwards.
LoadFromUrl(self, response) ==
    Let2(LAMBDA s, resp :
           IF resp.kind = "exception" THEN [ok |-> FALSE, s |-> s]
           ELSE IF resp.status = 200
           THEN [ok |-> TRUE,
                 s  |-> [s EXCEPT !.html_content = resp.text, !.soup = resp.text]]
           ELSE [ok |-> FALSE, s |-> s],
         self, response)

\* raises: BeautifulSoup raises on html_content (it is no markup)
LoadFromHtml(self, html, parserRaises) ==
    Let3(LAMBDA s, html_content, raises :
           IF raises
           THEN [ok |-> FALSE, s |-> [s EXCEPT !.html_content = Some(html_content)]]
           ELSE [ok |-> TRUE,
                 s  |-> [s EXCEPT !.html_content = Some(html_content),
                                  !.soup = Some(html_content)]],
         self, html, parserRaises)

LoadFromFile(self, opened) ==
    Let2(LAMBDA s, file :
           IF file.kind = "exception" THEN [ok |-> FALSE, s |-> s]
           ELSE [ok |-> TRUE,
                 s  |-> [s EXCEPT !.html_content = file.text, !.soup = file.text]],
         self, opened)

\* scraper.scrape(), dispatched on the instance's class
Scrape(self) ==
    Let1(LAMBDA s :
           IF s.cls = RojadirectaScraper THEN RojadirectaScrape(s.soup)
           ELSE DaddyLiveScrape(s.soup),
         self)

(***************************************************************************)
(* urllib.parse.urlparse(url).netloc                                       *)
(***************************************************************************)
Letters ==
    {"a", "b", "c", "d", "e", "f", "g", "h", "i", "j", "k", "l", "m", "n", "o", "p",
     "q", "r", "s", "t", "u", "v", "w", "x", "y", "z", "A", "B", "C", "D", "E", "F",
     "G", "H", "I", "J", "K", "L", "M", "N", "O", "P", "Q", "R", "S", "T", "U", "V",
     "W", "X", "Y", "Z"}
IsAlpha(c) == c \in Letters
IsSchemeChar(c) == Let1(LAMBDA x : IsAlpha(x) \/ IsDigit(x) \/ x \in {"+", "-", "."}, c)

\* urlsplit: the url with its scheme and the colon after it removed
AfterScheme(str) ==
    Let1(LAMBDA url :
           Let1(LAMBDA i :
                  IF /\ i > 0
                     /\ IsAlpha(CharAt(url, 0))
                     /\ \A j \in 0..(i - 1) : IsSchemeChar(CharAt(url, j))
                  THEN Slice(url, i + 1, Len(url))
                  ELSE url,
                FindFrom(url, ":", 0)),
         str)

\* _splitnetloc(url, 2): up to the first of / ? #
Netloc(url) ==
    Let1(LAMBDA rest :
           IF Slice(rest, 0, 2) # "//" THEN ""
           ELSE Let1(LAMBDA delims :
                       Slice(rest, 2, IF delims = {} THEN Len(rest) ELSE Least(delims)),
                     {d \in 2..(Len(rest) - 1) : CharAt(rest, d) \in {"/", "?", "#"}}),
         AfterScheme(url))

(***************************************************************************)
(* dict operations (insertion-ordered)                                     *)
(***************************************************************************)
HasKey(d, k) == \E i \in 1..Len(d) : d[i].k = k
DictGet(d, k) == d[CHOOSE i \in 1..Len(d) : d[i].k = k].v

\* d[k] = v: an existing key keeps its place
DictSet(dict, key, val) ==
    Let3(LAMBDA d, k, v :
           IF HasKey(d, k)
           THEN [i \in 1..Len(d) |-> IF d[i].k = k THEN [k |-> k, v |-> v] ELSE d[i]]
           ELSE Append(d, [k |-> k, v |-> v]),
         dict, key, val)

\* d.update(e)
RECURSIVE DictUpdate(_, _)
DictUpdate(dict, other) ==
    Let2(LAMBDA d, e :
           IF e = <<>> THEN d
           ELSE DictUpdate(DictSet(d, Head(e).k, Head(e).v), Tail(e)),
         dict, other)

(***************************************************************************)
(* ScraperManager                                                          *)
(***************************************************************************)
RegisterScraper(map, url_pattern, scraper_class) ==
    DictSet(map, url_pattern, scraper_class)

\* None, or the class of the first pattern found in the url's netloc
GetScraperForUrl(registry, url) ==
    Let2(LAMBDA map, domain :
           Let1(LAMBDA hits : IF hits = {} THEN None ELSE Some(map[Least(hits)].v),
                {i \in 1..Len(map) : Contains(domain, map[i].k)}),
         registry, Netloc(url))

\* [results, ret]: self.results afterwards and the value returned
ScrapeUrl(stored, registry, source, response) ==
    Let4(LAMBDA res, scraper_class, url, resp :
           IF scraper_class = None THEN [results |-> res, ret |-> <<>>]
           ELSE Let1(LAMBDA load :
                       IF load.ok
                       THEN Let1(LAMBDA events :
                                   [results |-> DictSet(res, url, events), ret |-> events],
                                 Scrape(load.s))
                       ELSE [results |-> res, ret |-> <<>>],
                     LoadFromUrl(NewScraper(scraper_class[1], url), resp)),
         stored, GetScraperForUrl(registry, source), source, response)

\* self.results after scrape_from_html
ResultsAfterHtmlStored(res, load) ==
    IF load.ok THEN DictSet(res, "dummy_url", Scrape(load.s)) ELSE res
ResultsAfterHtml(res, load) == res

ScrapeFromHtml(res, html, raises, scraper_type) ==
    Let1(LAMBDA load :
           [results |-> ResultsAfterHtml(res, load),
            ret     |-> IF load.ok THEN Scrape(load.s) ELSE <<>>],
         LoadFromHtml(NewScraper(scraper_type, "dummy_url"), html, raises))

ScrapeFile(stored, path, opened, scraper_type) ==
    Let4(LAMBDA res, filepath, file, load :
           IF load.ok
           THEN Let1(LAMBDA events :
                       [results |-> DictSet(res, filepath, events), ret |-> events],
                     Scrape(load.s))
           ELSE [results |-> res, ret |-> <<>>],
         stored, path, opened,
         LoadFromFile(NewScraper(scraper_type, "dummy_url"), opened))

\* lines 269-270: the loop from position i on; resps[i] is what the fetch of
\* urls[i] meets.  acc is [results, local]: self.results and the local dict.
RECURSIVE ScrapeLoopStopping(_, _, _, _, _)
ScrapeLoopStopping(registry, sources, responses, from, state) ==
    Let5(LAMBDA map, urls, resps, i, acc :
           IF i > Len(urls) THEN acc
           ELSE Let1(LAMBDA one :
                       IF one.ret = <<>>
                       THEN [results |-> one.results,
                             local   |-> DictSet(acc.local, urls[i], one.ret)]
                       ELSE ScrapeLoopStopping(map, urls, resps, i + 1,
                              [results |-> one.results,
                               local   |-> DictSet(acc.local, urls[i], one.ret)]),
                     ScrapeUrl(acc.results, map, urls[i], resps[i])),
         registry, sources, responses, from, state)

RECURSIVE ScrapeLoop(_, _, _, _, _)
ScrapeLoop(registry, sources, responses, from, state) ==
    Let5(LAMBDA map, urls, resps, i, acc :
           IF i > Len(urls) THEN acc
           ELSE Let1(LAMBDA one :
                       ScrapeLoop(map, urls, resps, i + 1,
                                  [results |-> one.results,
                                   local   |-> DictSet(acc.local, urls[i], one.ret)]),
                     ScrapeUrl(acc.results, map, urls[i], resps[i])),
         registry, sources, responses, from, state)

ScrapeMultipleUrls(res, map, urls, resps) ==
    Let1(LAMBDA loop :
           [results |-> DictUpdate(loop.results, loop.local), ret |-> loop.local],
         ScrapeLoop(map, urls, resps, 1, [results |-> res, local |-> <<>>]))

\* lines 293-319: the rows of one event of the source url
EventRows(source, ev) ==
    Let3(LAMBDA url, event, domain :
           IF "channels" \in DOMAIN event
           THEN [i \in 1..Len(event.channels) |->
                   [source |-> domain, url |-> url,
                    country_league |-> event.country_league,
                    title |-> event.title, time |-> event.time,
                    channel_name |-> event.channels[i].name,
                    channel_url  |-> event.channels[i].url]]
           ELSE <<[source |-> domain, url |-> url] @@ event>>,
         source, ev, Netloc(source))

\* lines 285-319: all_rows
AllRows(stored) ==
    Let1(LAMBDA res :
           Flatten([i \in 1..Len(res) |->
               Flatten([j \in 1..Len(res[i].v) |-> EventRows(res[i].k, res[i].v[j])])]),
         stored)

\* str(x) of a value that may be None
PyStr(x) == IF x = None THEN "None" ELSE x[1]

\* lines 341-342: the two lines of a row
RowLines(r) ==
    Let2(LAMBDA row, has :
           << "#EXTINF:-1 tvg-id=\"\" tvg-logo=\"\" group-title=\"" \o row.source
              \o "\"," \o row.title \o " " \o (IF has THEN row.channel_name ELSE ""),
              IF has THEN PyStr(row.channel_url) ELSE "" >>,
         r, "channel_name" \in DOMAIN r)

\* lines 337-344: the file is written only when there are rows
M3uAfterExport(file, built) ==
    Let1(LAMBDA rows :
           IF rows # <<>>
           THEN Some(Flatten([i \in 1..Len(rows) |-> RowLines(rows[i])]))
           ELSE file,
         built)

(***************************************************************************)
(* Bounds and input pools                                                  *)
(***************************************************************************)
\* nodes of an emphasis block
MaxNodes == 2
\* emphasis blocks of a document
MaxBlocks == 2
\* children of a menu anchor
MaxKids == 2
\* items of a menu
MaxItems == 1
\* urls of one scrape_multiple_urls call
MaxUrls == 2
\* calls made on one manager
MaxCalls == 3

SeqsUpTo(S, n) == UNION {[1..k -> S] : k \in 0..n}

DaddyNodes ==
    {TextNode("20:00 A "), LinkNode("C", Some("http://c")), LinkNode("A", None)}
\* the documents of at most nb emphasis blocks of at most nn nodes
DaddyDocs(nb, nn) ==
    {[menu |-> <<>>, strongs |-> b] : b \in SeqsUpTo(SeqsUpTo(DaddyNodes, nn), nb)}

RojaKids ==
    {TextNode("Liga "), TextNode("No especificado"), TextNode("20:00 "),
     SpanNode(<<"t">>, "20:00"), SpanNode(<<"t">>, "9:05"),
     SpanNode(<<"t", "x">>, "LIVE")}
SubItem1 ==
    [class |-> <<"subitem1">>, link |-> Some(Anchor(Some("http://s"), <<TextNode(" Liga ")>>))]
SubItem2 == [class |-> <<"subitem1", "x">>, link |-> Some(Anchor(None, <<TextNode("Sky")>>))]
SubOther == [class |-> <<"other">>, link |-> Some(Anchor(Some("#"), <<TextNode("Mas")>>))]
RojaSubs == {None, Some(<<>>), Some(<<SubItem1>>), Some(<<SubOther, SubItem1, SubItem2>>)}
\* the menu items whose anchor has at most nk children
RojaItems(nk) ==
    {[class |-> c, link |-> l, sub |-> u] :
        c \in {<<>>, <<"es", "liga">>},
        l \in {None} \cup {Some(Anchor(h, ks)) :
                             h \in {Some("#"), Some("/e")}, ks \in SeqsUpTo(RojaKids, nk)},
        u \in RojaSubs}
\* the documents whose menu has at most ni items
RojaDocs(ni, nk) ==
    {[menu |-> m, strongs |-> <<>>] : m \in SeqsUpTo(RojaItems(nk), ni)}

\* The pages the manager's sources serve.
PageMixed ==
    [menu    |-> <<[class |-> <<"es">>,
                    link  |-> Some(Anchor(Some("#"),
                                <<TextNode("Liga "), SpanNode(<<"t">>, "20:00")>>)),
                    sub   |-> Some(<<SubItem1>>)]>>,
     strongs |-> << <<TextNode("20:00 A "), LinkNode("C", Some("http://c")),
                      TextNode(" "), LinkNode("D", None)>>,
                    <<TextNode("21:30 B")>> >>]
PageEmpty == [menu |-> <<>>, strongs |-> <<>>]
MgrPages == {PageMixed, PageEmpty}

Urls == {"http://a.tv:80/x", "http://b.io/"}
Patterns == {"tv", "80"}
Files == {"a.html"}

Responses(pg) == {Exception, Response(404, pg), Response(200, pg)}
FileStates(pg) == {Exception, File(pg)}

(***************************************************************************)
(* One scraper instance: the calls of BaseScraper and scrape               *)
(***************************************************************************)
mgrVars == <<scraper_map, results, all_rows, m3u, calls>>

InitExt ==
    /\ scraper_map = <<>> /\ results = <<>> /\ all_rows = <<>> /\ m3u = None
    /\ calls = 0
    /\ page \in DaddyDocs(MaxBlocks, MaxNodes) \cup RojaDocs(MaxItems, MaxKids)
    /\ \E cls \in Classes : scraper = NewScraper(cls, "http://a.tv:80/x")
    /\ op = "init" /\ arg = <<>> /\ ret = <<>>

load_from_url ==
    \E resp \in Responses(page) :
        \E load \in {LoadFromUrl(scraper, resp)} :
            /\ scraper' = load.s
            /\ ret' = load.ok
            /\ op' = "load_from_url"
            /\ arg' = resp
            /\ UNCHANGED <<mgrVars, page>>

load_from_html ==
    \E raises \in BOOLEAN :
        \E load \in {LoadFromHtml(scraper, page, raises)} :
            /\ scraper' = load.s
            /\ ret' = load.ok
            /\ op' = "load_from_html"
            /\ arg' = [html |-> page, raises |-> raises]
            /\ UNCHANGED <<mgrVars, page>>

load_from_file ==
    \E file \in FileStates(page) :
        \E load \in {LoadFromFile(scraper, file)} :
            /\ scraper' = load.s
            /\ ret' = load.ok
            /\ op' = "load_from_file"
            /\ arg' = file
            /\ UNCHANGED <<mgrVars, page>>

scrape ==
    /\ ret' = Scrape(scraper)
    /\ op' = "scrape"
    /\ arg' = <<>>
    /\ UNCHANGED <<mgrVars, page, scraper>>

NextExt == load_from_url \/ load_from_html \/ load_from_file \/ scrape

SpecExt == InitExt /\ [][NextExt]_vars

(***************************************************************************)
(* DaddyLiveScraper.scrape as a function of the loaded document            *)
(***************************************************************************)
InitDaddy ==
    /\ scraper_map = <<>> /\ results = <<>> /\ all_rows = <<>> /\ m3u = None
    /\ calls = 0
    /\ page \in DaddyDocs(MaxBlocks, MaxNodes)
    /\ scraper = LoadFromHtml(NewScraper(DaddyLiveScraper, "dummy_url"), page, FALSE).s
    /\ op = "load_from_html" /\ arg = [html |-> page, raises |-> FALSE] /\ ret = TRUE

SpecDaddy == InitDaddy /\ [][scrape]_vars

(***************************************************************************)
(* The manager                                                             *)
(***************************************************************************)
Init ==
    /\ scraper_map = <<>>
    /\ results = <<>>
    /\ all_rows = <<>>
    /\ m3u = None
    /\ scraper = None
    /\ page \in MgrPages
    /\ op = "init"
    /\ arg = <<>>
    /\ ret = <<>>
    /\ calls = 0

Called(name, a, r) ==
    /\ calls' = calls + 1
    /\ op' = name
    /\ arg' = a
    /\ ret' = r
    /\ UNCHANGED <<scraper, page>>

register_scraper ==
    /\ calls < MaxCalls
    /\ \E url_pattern \in Patterns, scraper_class \in Classes :
           /\ scraper_map' = RegisterScraper(scraper_map, url_pattern, scraper_class)
           /\ Called("register_scraper",
                     [url_pattern |-> url_pattern, scraper_class |-> scraper_class], None)
           /\ UNCHANGED <<results, all_rows, m3u>>

get_scraper_for_url ==
    /\ calls < MaxCalls
    /\ \E url \in Urls :
           /\ Called("get_scraper_for_url", [url |-> url],
                     GetScraperForUrl(scraper_map, url))
           /\ UNCHANGED <<scraper_map, results, all_rows, m3u>>

scrape_url ==
    /\ calls < MaxCalls
    /\ \E url \in Urls, resp \in Responses(page) :
           \E r \in {ScrapeUrl(results, scraper_map, url, resp)} :
               /\ results' = r.results
               /\ Called("scrape_url", [url |-> url, resp |-> resp], r.ret)
               /\ UNCHANGED <<scraper_map, all_rows, m3u>>

scrape_from_html ==
    /\ calls < MaxCalls
    /\ \E raises \in BOOLEAN, scraper_type \in Classes :
           \E r \in {ScrapeFromHtml(results, page, raises, scraper_type)} :
               /\ results' = r.results
               /\ Called("scrape_from_html",
                         [html |-> page, raises |-> raises, scraper_type |-> scraper_type],
                         r.ret)
               /\ UNCHANGED <<scraper_map, all_rows, m3u>>

scrape_file ==
    /\ calls < MaxCalls
    /\ \E filepath \in Files, file \in FileStates(page), scraper_type \in Classes :
           \E r \in {ScrapeFile(results, filepath, file, scraper_type)} :
               /\ results' = r.results
               /\ Called("scrape_file",
                         [filepath |-> filepath, file |-> file, scraper_type |-> scraper_type],
                         r.ret)
               /\ UNCHANGED <<scraper_map, all_rows, m3u>>

scrape_multiple_urls ==
    /\ calls < MaxCalls
    /\ \E urls \in SeqsUpTo(Urls, MaxUrls) :
           \E resps \in [1..Len(urls) -> Responses(page)] :
               \E r \in {ScrapeMultipleUrls(results, scraper_map, urls, resps)} :
                   /\ results' = r.results
                   /\ Called("scrape_multiple_urls", [urls |-> urls, resps |-> resps], r.ret)
                   /\ UNCHANGED <<scraper_map, all_rows, m3u>>

export_to_m3u ==
    /\ calls < MaxCalls
    /\ \E rows \in {AllRows(results)} :
           /\ all_rows' = rows
           /\ m3u' = M3uAfterExport(m3u, rows)
           /\ Called("export_to_m3u", <<>>, None)
           /\ UNCHANGED <<scraper_map, results>>

\* the sources change what they serve
Publish ==
    /\ page' \in MgrPages \ {page}
    /\ UNCHANGED <<scraper_map, results, all_rows, m3u, scraper, op, arg, ret, calls>>

Next ==
    \/ register_scraper
    \/ get_scraper_for_url
    \/ scrape_url
    \/ scrape_from_html
    \/ scrape_file
    \/ scrape_multiple_urls
    \/ export_to_m3u
    \/ Publish

Spec == Init /\ [][Next]_vars

(***************************************************************************)
(* One call on a manager that earlier calls have left with a registry and  *)
(* at most one stored result.                                              *)
(***************************************************************************)
\* the registries register_scraper builds over Patterns
Registries ==
    {m \in SeqsUpTo([k : Patterns, v : Classes], Cardinality(Patterns)) :
        \A i, j \in 1..Len(m) : m[i].k = m[j].k => i = j}

\* the event lists the scrapers return on the manager's pages
EventLists(cls) ==
    {Scrape(LoadFromHtml(NewScraper(c, "dummy_url"), pg, FALSE).s) :
        c \in cls, pg \in MgrPages}

\* the results a registry's earlier calls can have stored
StoredResults(map) ==
    {<<>>}
    \cup {<<[k |-> f, v |-> e]>> : f \in Files, e \in EventLists(Classes)}
    \cup {<<[k |-> u, v |-> e]>> :
            u \in {x \in Urls : GetScraperForUrl(map, x) # None},
            e \in EventLists(Classes)}
    \cup {<<[k |-> u, v |-> <<>>]>> : u \in Urls}

InitStep ==
    /\ scraper_map \in Registries
    /\ results \in StoredResults(scraper_map)
    /\ all_rows = <<>>
    /\ m3u = None
    /\ scraper = None
    /\ page \in MgrPages
    /\ op = "init"
    /\ arg = <<>>
    /\ ret = <<>>
    /\ calls = 0

NextStep == calls = 0 /\ Next

SpecStep == InitStep /\ [][NextStep]_vars


(***************************************************************************)
(* Properties                                                              *)
(***************************************************************************)
\* the step is a call of the manager's operation name
Call(name) == op' = name /\ calls' = calls + 1

Loads == {"load_from_url", "load_from_html", "load_from_file"}

\* str.lower() on the letters
Lower(c) ==
    IF c \in DOMAIN [A |-> "a", B |-> "b", C |-> "c", D |-> "d", E |-> "e", F |-> "f",
                     G |-> "g", H |-> "h", I |-> "i", J |-> "j", K |-> "k", L |-> "l",
                     M |-> "m", N |-> "n", O |-> "o", P |-> "p", Q |-> "q", R |-> "r",
                     S |-> "s", T |-> "t", U |-> "u", V |-> "v", W |-> "w", X |-> "x",
                     Y |-> "y", Z |-> "z"]
    THEN [A |-> "a", B |-> "b", C |-> "c", D |-> "d", E |-> "e", F |-> "f",
          G |-> "g", H |-> "h", I |-> "i", J |-> "j", K |-> "k", L |-> "l",
          M |-> "m", N |-> "n", O |-> "o", P |-> "p", Q |-> "q", R |-> "r",
          S |-> "s", T |-> "t", U |-> "u", V |-> "v", W |-> "w", X |-> "x",
          Y |-> "y", Z |-> "z"][c]
    ELSE c

\* The hostname of a url: its netloc without the user information before the
\* last "@" and without the port after the ":", in lower case.
Hostname(url) ==
    Let1(LAMBDA netloc :
      Let1(LAMBDA ats :
        Let1(LAMBDA hostport :
          Let1(LAMBDA colon :
            Let1(LAMBDA host : Concat([i \in 1..Len(host) |-> Lower(CharAt(host, i - 1))]),
                 IF colon = -1 THEN hostport ELSE Slice(hostport, 0, colon)),
            FindFrom(hostport, ":", 0)),
          IF ats = {} THEN netloc ELSE Slice(netloc, Greatest(ats) + 1, Len(netloc))),
        {i \in 0..(Len(netloc) - 1) : CharAt(netloc, i) = "@"}),
      Netloc(url))

\* the class of the first registered pattern found in the hostname, or None
FirstByHostname(map, url) ==
    Let2(LAMBDA m, host :
           Let1(LAMBDA hits : IF hits = {} THEN None ELSE Some(m[Least(hits)].v),
                {i \in 1..Len(m) : Contains(host, m[i].k)}),
         map, Hostname(url))

\* C1: get_scraper_for_url returns the class of the first registered pattern
\* that is a substring of the url's hostname, and None exactly when no
\* registered pattern is a substring of the hostname.
C1_ResolveByHostname ==
    op = "get_scraper_for_url" => ret = FirstByHostname(scraper_map, arg.url)

\* the number of rows the events of a list call for: one per channel, and one
\* for an event without channels
RECURSIVE RowsOfEvents(_)
RowsOfEvents(events) ==
    IF events = <<>> THEN 0
    ELSE Max(1, Len(Head(events).channels)) + RowsOfEvents(Tail(events))

RECURSIVE RowsOfResults(_)
RowsOfResults(res) ==
    IF res = <<>> THEN 0 ELSE RowsOfEvents(Head(res).v) + RowsOfResults(Tail(res))

\* C2: the number of rows export_to_m3u builds is the sum over all stored
\* events of max(1, number of channels of the event).
C2_RowCount ==
    op = "export_to_m3u" => Len(all_rows) = RowsOfResults(results)

\* the scrape of url fails: no pattern resolves it, or its load fails
Fails(map, url, resp) ==
    Let1(LAMBDA scraper_class :
           \/ scraper_class = None
           \/ ~LoadFromUrl(NewScraper(scraper_class[1], url), resp).ok,
         GetScraperForUrl(map, url))

\* the entry of key k is the same in the dicts d and e
SameEntry(d, e, k) ==
    /\ HasKey(d, k) <=> HasKey(e, k)
    /\ HasKey(d, k) => DictGet(d, k) = DictGet(e, k)

\* C3: a scrape of a url that fails stores nothing: scrape_url, and
\* scrape_multiple_urls for a url all of whose scrapes in the call fail, add
\* no entry for the url to results and leave its entry unchanged.
C3_FailedScrapeStoresNothing ==
    [][/\ Call("scrape_url") /\ Fails(scraper_map, arg'.url, arg'.resp)
            => results' = results
       /\ Call("scrape_multiple_urls")
            => \A i \in 1..Len(arg'.urls) :
                 (\A j \in 1..Len(arg'.urls) :
                      arg'.urls[j] = arg'.urls[i]
                          => Fails(scraper_map, arg'.urls[j], arg'.resps[j]))
                 => SameEntry(results, results', arg'.urls[i])]_vars

\* the events the scrape of url extracts from the served page
Extracted(map, url, resp) ==
    Scrape(LoadFromUrl(NewScraper(GetScraperForUrl(map, url)[1], url), resp).s)

\* C4: scrape_multiple_urls processes every url whatever failed before it:
\* for every position whose url resolves and loads, the url's extracted
\* events are returned and stored under that url.
C4_EveryUrlProcessed ==
    [][Call("scrape_multiple_urls")
         => \A i \in 1..Len(arg'.urls) :
              ~Fails(scraper_map, arg'.urls[i], arg'.resps[i])
              => /\ HasKey(ret', arg'.urls[i])
                 /\ DictGet(ret', arg'.urls[i])
                      = Extracted(scraper_map, arg'.urls[i], arg'.resps[i])
                 /\ HasKey(results', arg'.urls[i])
                 /\ DictGet(results', arg'.urls[i])
                      = Extracted(scraper_map, arg'.urls[i], arg'.resps[i])]_vars

\* the blocks of the loaded document whose text holds a time token
TimedBlocks ==
    SelectSeq(scraper.soup[1].strongs, LAMBDA b : TimePatternSearch(GetText(b)) # -1)

\* the links of a block, in document order, as channels
LinksOf(block) ==
    Let1(LAMBDA links :
           [k \in 1..Len(links) |-> [name |-> links[k].text, url |-> links[k].href]],
         SelectSeq(block, LAMBDA n : n.tag = "a"))

\* C5: DaddyLiveScraper.scrape emits one event per block holding a time
\* token, and the channel list of each event is exactly the links of the
\* event's own block, in document order.
C5_ChannelsOfOwnBlock ==
    (op = "scrape" /\ scraper.cls = DaddyLiveScraper /\ scraper.soup # None)
        => /\ Len(ret) = Len(TimedBlocks)
           /\ \A k \in 1..Len(ret) : ret[k].channels = LinksOf(TimedBlocks[k])

\* Two events were emitted, the first from a block with links, and the
\* second has the links of its own nonempty block.
C5_Witness ==
    /\ op = "scrape"
    /\ Len(ret) = 2
    /\ ret[1].channels # <<>>
    /\ ret[2].channels # <<>>
    /\ ret[2].channels = LinksOf(TimedBlocks[2])

\* C6: when the most recent load on an instance returned False no document
\* is loaded, and a following scrape returns the empty list.
C6_FailedLoadLeavesNothing ==
    [][(op \in Loads /\ ret = FALSE)
         => /\ scraper.soup = None
            /\ op' = "scrape" => ret' = <<>>]_vars

\* C7: the title of every emitted event contains neither the event's time nor
\* the anchor text of any of the event's channels.
C7_TitleFreeOfTimeAndChannels ==
    op = "scrape"
        => \A k \in 1..Len(ret) :
             /\ ~Contains(ret[k].title, ret[k].time)
             /\ \A c \in 1..Len(ret[k].channels) :
                  ret[k].channels[c].name # ""
                      => ~Contains(ret[k].title, ret[k].channels[c].name)

\* s is two digits, a colon, two digits
IsHHMM(s) == Len(s) = 5 /\ TimePatternAt(s, 0)

\* C8: the time of every emitted event is HH:MM or "No especificado".
C8_TimeFormat ==
    op = "scrape"
        => \A k \in 1..Len(ret) : IsHHMM(ret[k].time) \/ ret[k].time = NoEspecificado

\* the menu items of the loaded document that have an anchor
ItemsWithAnchor ==
    SelectSeq(scraper.soup[1].menu, LAMBDA item : FirstAnchor(item) # None)

\* the anchor holds no time: neither the time-span pattern matches its markup
\* nor has it a span of class t
NoTime(anchor) ==
    Let1(LAMBDA a : TimeMatch(Serialize(a)) = None /\ FindTimeSpan(a) = None, anchor)

\* C9: for every menu item whose first anchor holds no time,
\* RojadirectaScraper.scrape emits an event with time "No especificado" and
\* the anchor's full text, trimmed, as title.
C9_NoTimeKeepsFullText ==
    (op = "scrape" /\ scraper.cls = RojadirectaScraper /\ scraper.soup # None)
        => \A k \in 1..Len(ItemsWithAnchor) :
             NoTime(FirstAnchor(ItemsWithAnchor[k])[1])
                 => /\ ret[k].time = NoEspecificado
                    /\ ret[k].title = Strip(GetText(FirstAnchor(ItemsWithAnchor[k])[1].kids))

\* C10: scrape_from_html leaves results and scraper_map unchanged, whether
\* the load succeeds or fails.
C10_ScrapeFromHtmlStoresNothing ==
    [][Call("scrape_from_html")
         => results' = results /\ scraper_map' = scraper_map]_vars

\* scrape_from_html has loaded its text and returned events on a manager
\* that holds stored results.
C10_Witness ==
    /\ op = "scrape_from_html"
    /\ arg.raises = FALSE
    /\ ret # <<>>
    /\ results # <<>>
============================================================================
